---- MODULE Spec2Model ----
(***************************************************************************)
(* Face selection and measurement of the 3D model viewer (Model.tsx and    *)
(* ModelViewer.tsx).  Vertex coordinates are integers; a length is held in *)
(* 1/SCALE units, rounded down; a unit normal is held as the primitive     *)
(* integer vector of its direction (the 1/|n| factor is applied where the  *)
(* dot product is compared).                                               *)
(***************************************************************************)
EXTENDS Integers, Sequences, FiniteSets, TLC

VARIABLES
    position,           \* geometry.attributes.position: sequence of triangles
    colorAttr,          \* geometry.attributes.color: Null or Some(colour per vertex)
    selectedFaceIndex,  \* Model state
    edgeLines,          \* edgeLinesRef.current.children
    measurements,       \* ModelViewer state, set through onMeasure
    pc,                 \* "idle", or "loop" inside handleClick/findConnectedFaces
    startFaceIndex,     \* findConnectedFaces argument
    connectedFaces,     \* Set<number>, in insertion order
    processedFaces,     \* Set<number>
    facesToProcess,     \* worklist (stack)
    expanded,           \* history: how often each face was expanded in this call
    pushes,             \* history: how often each face was pushed in this call
    lastEvent,          \* history: the last click event handled
    nClicks,            \* history: number of click events handled
    validPicks,         \* history: number of clicks that passed the early returns
    onMeasureCalls,     \* history: number of onMeasure calls
    repeatOf,           \* history: when this pick repeats the triangle of the pick before
                        \* it, the result and lines that pick had published; else Null
    modelUrl,           \* ModelViewer state: 0 for '', else the object URL of an upload
    error,              \* ModelViewer state: Null or Some(message)
    effect,             \* the Model element and its effect on [geometry]: "unmounted",
                        \* "none" (not run since the mount), "current", or "stale"
                        \* (run for the geometry that has since been replaced)
    geometryUrl,        \* the URL whose geometry useLoader holds; 0 for none
    nUploads,           \* history: number of upload events handled
    lastFiles,          \* history: event.target.files of the last upload event
    measuredUrl         \* history: the URL of the geometry measurements was computed on

vars == <<position, colorAttr, selectedFaceIndex, edgeLines, measurements, pc,
          startFaceIndex, connectedFaces, processedFaces, facesToProcess,
          expanded, pushes, lastEvent, nClicks, validPicks, onMeasureCalls, repeatOf,
          modelUrl, error, effect, geometryUrl, nUploads, lastFiles, measuredUrl>>

-----------------------------------------------------------------------------
(* Bounds *)
MaxFaces == 3
MaxPicks == 2
MaxScale == 2
MaxCoord == 10
MaxUploads == 3

(* Program constants *)
ThresholdNum == 95
ThresholdDen == 100
MinCircleVertices == 8
RectVertexCount == 4
RectEdgeCount == 4
SCALE == 100
\* Math.PI as 355 / 113
PiNum == 355
PiDen == 113
NegInfinity == -1000000000
PosInfinity == 1000000000

\* null / undefined is the empty sequence, a present value v is <<v>>
Null == <<>>
Some(v) == <<v>>
DEFAULT_COLOR == "#6e6e6e"
HIGHLIGHT_COLOR == "#2196F3"

-----------------------------------------------------------------------------
(* THREE.Vector3 arithmetic *)
Abs(x) == IF x < 0 THEN -x ELSE x

RECURSIVE Gcd(_, _)
Gcd(a, b) == IF b = 0 THEN a ELSE Gcd(b, a % b)

RECURSIVE IsqrtBetween(_, _, _)
IsqrtBetween(n, lo, hi) ==
    IF lo >= hi THEN lo
    ELSE LET mid == (lo + hi + 1) \div 2
         IN  IF mid * mid <= n THEN IsqrtBetween(n, mid, hi)
                               ELSE IsqrtBetween(n, lo, mid - 1)

Isqrt(n) == IsqrtBetween(n, 0, 46340)

subVectors(a, b) == <<a[1] - b[1], a[2] - b[2], a[3] - b[3]>>
crossVectors(a, b) == <<a[2] * b[3] - a[3] * b[2],
                        a[3] * b[1] - a[1] * b[3],
                        a[1] * b[2] - a[2] * b[1]>>
dot(a, b) == a[1] * b[1] + a[2] * b[2] + a[3] * b[3]
lengthSq(a) == dot(a, a)

\* variant: a vector of length 0 is replaced by the unit vector along z
normalize_defaultAxis(v) ==
    LET g == Gcd(Gcd(Abs(v[1]), Abs(v[2])), Abs(v[3]))
    IN  IF g = 0 THEN <<0, 0, 1>> ELSE <<v[1] \div g, v[2] \div g, v[3] \div g>>

\* Vector3.normalize(): divideScalar(length() || 1); the zero vector stays zero
normalize(v) ==
    LET g == Gcd(Gcd(Abs(v[1]), Abs(v[2])), Abs(v[3]))
    IN  IF g = 0 THEN v ELSE <<v[1] \div g, v[2] \div g, v[3] \div g>>

\* a.dot(b) > NORMAL_THRESHOLD for unit vectors a/|a| and b/|b|
dotAboveThreshold(a, b) ==
    LET d == dot(a, b)
    IN  /\ d > 0
        /\ d * d * ThresholdDen * ThresholdDen
             > ThresholdNum * ThresholdNum * lengthSq(a) * lengthSq(b)

\* Vector3.distanceTo, in 1/SCALE units
distanceTo(a, b) == Isqrt(lengthSq(subVectors(a, b)) * SCALE * SCALE)

\* Triangle.getArea(): half the length of the cross product, in 1/SCALE units
getArea(a, b, c) ==
    Isqrt(lengthSq(crossVectors(subVectors(c, b), subVectors(a, b))) * SCALE * SCALE) \div 2

\* Math.max(...xs) and Math.min(...xs); -Infinity and Infinity for no arguments
RECURSIVE MathMax(_)
\* variant: only the first argument is looked at
MathMax_first(xs) == IF xs = <<>> THEN NegInfinity ELSE Head(xs)

MathMax(xs) ==
    IF xs = <<>> THEN NegInfinity
    ELSE LET r == MathMax(Tail(xs)) IN IF Head(xs) > r THEN Head(xs) ELSE r

RECURSIVE MathMin(_)
\* variant: the initial value Infinity is never replaced
MathMin_untouched(xs) == PosInfinity

MathMin(xs) ==
    IF xs = <<>> THEN PosInfinity
    ELSE LET r == MathMin(Tail(xs)) IN IF Head(xs) < r THEN Head(xs) ELSE r

RECURSIVE SumSeq(_)
SumSeq(xs) == IF xs = <<>> THEN 0 ELSE Head(xs) + SumSeq(Tail(xs))

\* F applied to the value of e, with e evaluated once
WithValue(e, F(_)) == CHOOSE r \in {F(v) : v \in {e}} : TRUE

\* Set.add on a set kept in insertion order
SetAdd(s, x) ==
    WithValue(s, LAMBDA v : IF \E i \in 1..Len(v) : v[i] = x THEN v ELSE Append(v, x))

RECURSIVE SetAddEach(_, _)
SetAddEach(s, xs) == IF xs = <<>> THEN s ELSE SetAddEach(SetAdd(s, Head(xs)), Tail(xs))

SetAddAll(s, xs) == WithValue(xs, LAMBDA v : SetAddEach(s, v))

Range(s) == {s[i] : i \in 1..Len(s)}

-----------------------------------------------------------------------------
(* Geometry access *)
numFaces(pos) == Len(pos)
Faces(pos) == 0..(Len(pos) - 1)

\* new Vector3().fromBufferAttribute(position, f * 3 + k)
faceVertex(pos, f, k) == pos[f + 1][k + 1]
faceVertices(pos, f) == <<faceVertex(pos, f, 0), faceVertex(pos, f, 1), faceVertex(pos, f, 2)>>

\* crossVectors(v1 - v0, v2 - v0).normalize()
faceNormal(pos, f) ==
    normalize(crossVectors(subVectors(faceVertex(pos, f, 1), faceVertex(pos, f, 0)),
                           subVectors(faceVertex(pos, f, 2), faceVertex(pos, f, 0))))

-----------------------------------------------------------------------------
(* Meshes the loader can deliver *)
P0 == <<0, 0, 0>>
P1 == <<10, 0, 0>>
P2 == <<10, 20, 0>>
P3 == <<0, 20, 0>>

TriA == <<P0, P1, P2>>                               \* half of the 10 x 20 rectangle
TriB == <<P0, P2, P3>>                               \* the other half
TriT == <<P1, <<14, 0, 1>>, <<10, 1, 0>>>>           \* tilted, cos = 4/sqrt(17) > 0.95
TriW == <<P1, <<13, 0, 1>>, <<10, 1, 0>>>>           \* tilted, cos = 3/sqrt(10) < 0.95
TriX == <<<<10, 1, 0>>, <<12, 1, 0>>, <<10, 3, 0>>>> \* parallel to TriA, touches TriT and TriW only
TriF == <<P0, P2, P1>>                               \* TriA with opposite winding
TriD == <<P0, P0, P0>>                               \* three coincident vertices
TriS == <<P0, P0, P1>>                               \* two coincident vertices

TriPool == <<TriA, TriB, TriT, TriW, TriX, TriF, TriD, TriS>>

\* a mesh lists up to MaxFaces triangles of the pool, repeats allowed, in pool order
MeshIndices(n) == {ix \in [1..n -> 1..Len(TriPool)] :
                      \A i \in 1..(n - 1) : ix[i] <= ix[i + 1]}

Meshes == UNION {{[i \in 1..n |-> TriPool[ix[i]]] : ix \in MeshIndices(n)} : n \in 1..MaxFaces}

\* a convex polygon, listed counter-clockwise, as the fan of triangles from its first vertex
fanMesh(poly) == [i \in 1..(Len(poly) - 2) |-> <<poly[1], poly[i + 1], poly[i + 2]>>]

scaleVertex(v, k) == <<k * v[1], k * v[2], k * v[3]>>
scaleMesh(pos, k) == [i \in 1..Len(pos) |-> [j \in 1..3 |-> scaleVertex(pos[i][j], k)]]

maxAbsCoord(pos) ==
    CHOOSE m \in 0..(2 * MaxCoord) :
        /\ \A i \in 1..Len(pos), j \in 1..3, c \in 1..3 : Abs(pos[i][j][c]) <= m
        /\ \E i \in 1..Len(pos), j \in 1..3, c \in 1..3 : Abs(pos[i][j][c]) = m

\* eight vertices on the circle of radius sqrt(5) about (2, 2, 0)
Octagon == <<<<4, 3, 0>>, <<3, 4, 0>>, <<1, 4, 0>>, <<0, 3, 0>>,
             <<0, 1, 0>>, <<1, 0, 0>>, <<3, 0, 0>>, <<4, 1, 0>>>>

\* twelve vertices on the circle of radius 5 about the origin
Dodecagon == <<<<5, 0, 0>>, <<4, 3, 0>>, <<3, 4, 0>>, <<0, 5, 0>>,
               <<-3, 4, 0>>, <<-4, 3, 0>>, <<-5, 0, 0>>, <<-4, -3, 0>>,
               <<-3, -4, 0>>, <<0, -5, 0>>, <<3, -4, 0>>, <<4, -3, 0>>>>

\* eight vertices about the origin, alternately at distance 2 and sqrt(5)
Pinwheel == <<<<2, 0, 0>>, <<2, 1, 0>>, <<0, 2, 0>>, <<-1, 2, 0>>,
              <<-2, 0, 0>>, <<-2, -1, 0>>, <<0, -2, 0>>, <<1, -2, 0>>>>

\* the 1 x 2 rectangle
Quad == <<<<0, 0, 0>>, <<1, 0, 0>>, <<1, 2, 0>>, <<0, 2, 0>>>>

Polygons == {Octagon, Dodecagon, Pinwheel, Quad}

\* the polygon faces, at every scale that keeps the coordinates within MaxCoord
PolyMeshes ==
    {scaleMesh(fanMesh(pk[1]), pk[2]) :
        pk \in {qk \in Polygons \X (1..MaxScale) :
                   qk[2] * maxAbsCoord(fanMesh(qk[1])) <= MaxCoord}}

-----------------------------------------------------------------------------
(* findConnectedFaces *)

\* vertexToFaces.get(key) || []: face i is pushed once for each of its vertices at key
RECURSIVE vertexToFacesFrom(_, _, _)
vertexToFacesFrom(pos, key, m) ==
    IF m >= 3 * numFaces(pos) THEN <<>>
    ELSE LET i == m \div 3
             k == m % 3
         IN  IF faceVertex(pos, i, k) = key
             THEN <<i>> \o vertexToFacesFrom(pos, key, m + 1)
             ELSE vertexToFacesFrom(pos, key, m + 1)

\* variant: faces.unshift(i) in place of faces.push(i)
vertexToFaces_unshift(pos, key) ==
    LET L == vertexToFacesFrom(pos, key, 0)
    IN  [i \in 1..Len(L) |-> L[Len(L) + 1 - i]]

vertexToFaces(pos, key) == vertexToFacesFrom(pos, key, 0)

startNormal(pos, start) == faceNormal(pos, start)

\* variant: any normal on the seed's side is accepted
acceptsAdjacent_sameSide(pos, start, adjacentFace) ==
    dot(faceNormal(pos, adjacentFace), startNormal(pos, start)) > 0

\* the acceptance test of one adjacent face
acceptsAdjacent(pos, start, adjacentFace) ==
    dotAboveThreshold(faceNormal(pos, adjacentFace), startNormal(pos, start))

\* variant: the third vertex of the current face is not looked up
adjacentFacesOf_firstTwo(pos, currentFace) ==
    vertexToFaces(pos, faceVertex(pos, currentFace, 0))
      \o vertexToFaces(pos, faceVertex(pos, currentFace, 1))

\* the adjacent faces visited while expanding currentFace, in visiting order
adjacentFacesOf(pos, currentFace) ==
    vertexToFaces(pos, faceVertex(pos, currentFace, 0))
      \o vertexToFaces(pos, faceVertex(pos, currentFace, 1))
      \o vertexToFaces(pos, faceVertex(pos, currentFace, 2))

\* those of them that are added to connectedFaces and pushed on facesToProcess
acceptedFaces(pos, start, processed, currentFace) ==
    SelectSeq(adjacentFacesOf(pos, currentFace),
              LAMBDA f : f \notin processed /\ acceptsAdjacent(pos, start, f))

\* variant: the set starts empty
initialConnectedFaces_empty(start) == <<>>

\* new Set<number>([startFaceIndex])
initialConnectedFaces(start) == <<start>>

\* variant: a popped face is never recognised as processed
popIsProcessed_never(processed, currentFace) == FALSE

\* if (processedFaces.has(currentFace)) continue;
popIsProcessed(processed, currentFace) == currentFace \in processed

loopInit(start) ==
    [connectedFaces |-> initialConnectedFaces(start),
     processedFaces |-> {},
     facesToProcess |-> <<start>>]

\* the body of the loop for a face that is not yet processed
expandFace(pos, start, st, currentFace, popped) ==
    WithValue(acceptedFaces(pos, start, st.processedFaces \cup {currentFace}, currentFace),
              LAMBDA accepted :
                  [connectedFaces |-> SetAddAll(st.connectedFaces, accepted),
                   processedFaces |-> st.processedFaces \cup {currentFace},
                   facesToProcess |-> popped \o accepted])

\* one iteration of while (facesToProcess.length > 0)
loopStep(pos, start, st) ==
    WithValue(st, LAMBDA s :
        LET currentFace == s.facesToProcess[Len(s.facesToProcess)]
            popped == SubSeq(s.facesToProcess, 1, Len(s.facesToProcess) - 1)
        IN  IF popIsProcessed(s.processedFaces, currentFace)
            THEN [s EXCEPT !.facesToProcess = popped]
            ELSE expandFace(pos, start, s, currentFace, popped))

RECURSIVE loopRun(_, _, _)
loopRun(pos, start, st) ==
    IF st.facesToProcess = <<>> THEN st ELSE loopRun(pos, start, loopStep(pos, start, st))

\* the whole call: Array.from(connectedFaces)
findConnectedFaces(pos, start) == loopRun(pos, start, loopInit(start)).connectedFaces

CountIn(xs, x) == Cardinality({i \in 1..Len(xs) : xs[i] = x})

-----------------------------------------------------------------------------
(* getUniqueVertices, findEdges *)

RECURSIVE facesVertexList(_, _)
facesVertexList(pos, faceIndices) ==
    IF faceIndices = <<>> THEN <<>>
    ELSE faceVertices(pos, Head(faceIndices)) \o facesVertexList(pos, Tail(faceIndices))

\* variant: the vertices are pushed on an array, shared positions are not merged
getUniqueVertices_array(pos, faceIndices) == facesVertexList(pos, faceIndices)

\* Map keyed by position: one entry per distinct position, in order of first set
getUniqueVertices(pos, faceIndices) == SetAddAll(<<>>, facesVertexList(pos, faceIndices))

\* the comparator of getEdgeKey
lexLess(a, b) ==
    IF a[1] # b[1] THEN a[1] < b[1]
    ELSE IF a[2] # b[2] THEN a[2] < b[2] ELSE a[3] < b[3]

\* variant: the key names only the smaller end of the edge
getEdgeKey_smallerOnly(v1, v2) == IF lexLess(v2, v1) THEN <<v2>> ELSE <<v1>>

getEdgeKey(v1, v2) == IF lexLess(v2, v1) THEN <<v2, v1>> ELSE <<v1, v2>>

\* the pairs (i, j), i < j, in the order of the two nested loops
RECURSIVE pairsFrom(_, _, _)
pairsFrom(n, i, j) ==
    IF i > n THEN <<>>
    ELSE IF j > n THEN pairsFrom(n, i + 1, i + 2)
    ELSE <<<<i, j>>>> \o pairsFrom(n, i, j + 1)

RECURSIVE findEdgesLoop(_, _, _, _)
findEdgesLoop(vertices, pairs, edges, edgesList) ==
    IF pairs = <<>> THEN edgesList
    ELSE LET v1 == vertices[Head(pairs)[1]]
             v2 == vertices[Head(pairs)[2]]
             edgeKey == getEdgeKey(v1, v2)
         IN  IF edgeKey \notin edges
             THEN findEdgesLoop(vertices, Tail(pairs), edges \cup {edgeKey},
                                Append(edgesList, <<v1, v2>>))
             ELSE findEdgesLoop(vertices, Tail(pairs), edges, edgesList)

\* variant: the inner loop starts at j = i for the first vertex
findEdges_selfPairs(vertices) ==
    findEdgesLoop(vertices, pairsFrom(Len(vertices), 1, 1), {}, <<>>)

\* variant: each vertex is joined to the next one of the list only, the last to the first
findEdges_cycle(vertices) ==
    LET n == Len(vertices)
    IN  IF n < 2 THEN <<>>
        ELSE IF n = 2 THEN <<<<vertices[1], vertices[2]>>>>
        ELSE [i \in 1..n |-> <<vertices[i], vertices[(i % n) + 1]>>]

findEdges(vertices) == findEdgesLoop(vertices, pairsFrom(Len(vertices), 1, 2), {}, <<>>)

EDGE_COLORS == <<"#FF3B30", "#34C759", "#007AFF", "#FF9500",
                 "#5856D6", "#FF2D55", "#5AC8FA", "#FFCC00">>

\* variant: past the end of the palette the last colour is used
edgeColor_noWrap(index) ==
    EDGE_COLORS[IF index < Len(EDGE_COLORS) THEN index + 1 ELSE Len(EDGE_COLORS)]

\* EDGE_COLORS[index % EDGE_COLORS.length]
edgeColor(index) == EDGE_COLORS[(index % Len(EDGE_COLORS)) + 1]

\* the lines highlightEdges leaves in the group after clearing it
highlightEdges(edges) ==
    [i \in 1..Len(edges) |->
        [start |-> edges[i][1], end |-> edges[i][2], color |-> edgeColor(i - 1)]]

-----------------------------------------------------------------------------
(* calculateMeasurements and the shape tests *)

\* Math.abs(v1.angleTo(v2) - Math.PI / 2) < 0.1, that is |cos| < sin(0.1);
\* angleTo returns PI / 2 when either vector has length 0
angleNearRight(a, b) ==
    LET u == normalize(a)
        w == normalize(b)
        d == dot(u, w)
        p == lengthSq(u) * lengthSq(w)
    IN  \/ p = 0
        \/ /\ d * d * 100 < p
           /\ d * d * 30000 < 299 * p

\* variant: the vertex and edge counts are not tested
isRectangular_noCountCheck(vertices, edges) ==
    \A i \in 1..Len(edges) :
        LET edge == edges[i]
            nextEdge == edges[(i % Len(edges)) + 1]
        IN  angleNearRight(subVectors(edge[2], edge[1]),
                           subVectors(nextEdge[2], nextEdge[1]))

isRectangular(vertices, edges) ==
    IF Len(vertices) # RectVertexCount \/ Len(edges) # RectEdgeCount THEN FALSE
    ELSE \A i \in 1..Len(edges) :
            LET edge == edges[i]
                nextEdge == edges[(i % Len(edges)) + 1]
            IN  angleNearRight(subVectors(edge[2], edge[1]),
                               subVectors(nextEdge[2], nextEdge[1]))

RECURSIVE sumVectors(_)
sumVectors(vs) ==
    IF vs = <<>> THEN <<0, 0, 0>>
    ELSE LET r == sumVectors(Tail(vs))
         IN  <<Head(vs)[1] + r[1], Head(vs)[2] + r[2], Head(vs)[3] + r[3]>>

\* variant: the vertex count is not tested
isCircular_noCountCheck(vertices) ==
    LET n == Len(vertices)
        total == sumVectors(vertices)
        center == <<(total[1] * SCALE) \div n, (total[2] * SCALE) \div n,
                    (total[3] * SCALE) \div n>>
        distances == [i \in 1..n |->
            Isqrt(lengthSq(subVectors(
                <<vertices[i][1] * SCALE, vertices[i][2] * SCALE, vertices[i][3] * SCALE>>,
                center)))]
        avgRadius == SumSeq(distances) \div n
        variance == SumSeq([i \in 1..n |->
            (distances[i] - avgRadius) * (distances[i] - avgRadius)]) \div n
    IN  variance * 100 < avgRadius * SCALE

\* variance of the distances to the centroid < 0.01 * their mean, in 1/SCALE units
isCircular(vertices) ==
    IF Len(vertices) < MinCircleVertices THEN FALSE
    ELSE LET n == Len(vertices)
             total == sumVectors(vertices)
             center == <<(total[1] * SCALE) \div n, (total[2] * SCALE) \div n,
                         (total[3] * SCALE) \div n>>
             distances == [i \in 1..n |->
                 Isqrt(lengthSq(subVectors(
                     <<vertices[i][1] * SCALE, vertices[i][2] * SCALE, vertices[i][3] * SCALE>>,
                     center)))]
             avgRadius == SumSeq(distances) \div n
             variance == SumSeq([i \in 1..n |->
                 (distances[i] - avgRadius) * (distances[i] - avgRadius)]) \div n
         IN  variance * 100 < avgRadius * SCALE

determineShapeType(vertices, edges) ==
    IF isRectangular(vertices, edges) THEN "rectangle"
    ELSE IF isCircular(vertices) THEN "circle"
    ELSE "complex"

\* variant: the loop stops one vertex early
calculateArea_skipLast(vertices) ==
    IF Len(vertices) < 3 THEN 0
    ELSE SumSeq([i \in 1..(Len(vertices) - 3) |->
                    getArea(vertices[1], vertices[i + 1], vertices[i + 2])])

\* fan of triangles (v[0], v[i-1], v[i]) for i = 2 .. n-1 (0-based)
calculateArea(vertices) ==
    IF Len(vertices) < 3 THEN 0
    ELSE SumSeq([i \in 1..(Len(vertices) - 2) |->
                    getArea(vertices[1], vertices[i + 1], vertices[i + 2])])

\* variant: for a circle the perimeter is the circumference pi * maxLength
calculateMeasurements_circumference(vertices, edges) ==
    LET edgeLengths == [i \in 1..Len(edges) |->
            [id |-> i - 1,
             length |-> distanceTo(edges[i][1], edges[i][2]),
             vertices |-> edges[i],
             color |-> edgeColor(i - 1)]]
        lengths == [i \in 1..Len(edges) |-> edgeLengths[i].length]
        type == determineShapeType(vertices, edges)
    IN  [type |-> type,
         area |-> calculateArea(vertices),
         perimeter |-> IF type = "circle" THEN (PiNum * MathMax(lengths)) \div PiDen
                       ELSE SumSeq(lengths),
         maxLength |-> MathMax(lengths),
         minLength |-> MathMin(lengths),
         edgeLengths |-> edgeLengths]

calculateMeasurements(vertices, edges) ==
    LET edgeLengths == [i \in 1..Len(edges) |->
            [id |-> i - 1,
             length |-> distanceTo(edges[i][1], edges[i][2]),
             vertices |-> edges[i],
             color |-> edgeColor(i - 1)]]
        lengths == [i \in 1..Len(edges) |-> edgeLengths[i].length]
    IN  [type |-> determineShapeType(vertices, edges),
         area |-> calculateArea(vertices),
         perimeter |-> SumSeq(lengths),
         maxLength |-> MathMax(lengths),
         minLength |-> MathMin(lengths),
         edgeLengths |-> edgeLengths]

-----------------------------------------------------------------------------
(* The Model component *)

\* click events: a miss carries no face; a hit carries the first vertex index of the face
Events(pos) == {[face |-> Null]} \cup {[face |-> Some([a |-> 3 * f])] : f \in Faces(pos)}

defaultColors(pos) == [i \in 1..(3 * numFaces(pos)) |-> DEFAULT_COLOR]

\* colours of the three vertices of every face of faceIndices set to HIGHLIGHT_COLOR
highlightFaces(colors, faceIndices) ==
    [i \in 1..Len(colors) |->
        IF ((i - 1) \div 3) \in Range(faceIndices) THEN HIGHLIGHT_COLOR ELSE colors[i]]

zeroCounts(pos) == [f \in Faces(pos) |-> 0]

Init ==
    /\ position \in Meshes
    /\ colorAttr = Null
    /\ selectedFaceIndex = Null
    /\ edgeLines = <<>>
    /\ measurements = Null
    /\ pc = "idle"
    /\ startFaceIndex = Null
    /\ connectedFaces = <<>>
    /\ processedFaces = {}
    /\ facesToProcess = <<>>
    /\ expanded = zeroCounts(position)
    /\ pushes = zeroCounts(position)
    /\ lastEvent = Null
    /\ nClicks = 0
    /\ validPicks = 0
    /\ onMeasureCalls = 0
    /\ repeatOf = Null
    /\ modelUrl = 1
    /\ error = Null
    /\ effect = "none"
    /\ geometryUrl = 1
    /\ nUploads = 1
    /\ lastFiles = Null
    /\ measuredUrl = 0

\* the same component given a polygon face
PolyInit ==
    /\ position \in PolyMeshes
    /\ colorAttr = Null
    /\ selectedFaceIndex = Null
    /\ edgeLines = <<>>
    /\ measurements = Null
    /\ pc = "idle"
    /\ startFaceIndex = Null
    /\ connectedFaces = <<>>
    /\ processedFaces = {}
    /\ facesToProcess = <<>>
    /\ expanded = zeroCounts(position)
    /\ pushes = zeroCounts(position)
    /\ lastEvent = Null
    /\ nClicks = 0
    /\ validPicks = 0
    /\ onMeasureCalls = 0
    /\ repeatOf = Null
    /\ modelUrl = 1
    /\ error = Null
    /\ effect = "none"
    /\ geometryUrl = 1
    /\ nUploads = 1
    /\ lastFiles = Null
    /\ measuredUrl = 0

\* the mesh of the current URL is on screen: the Model element is rendered and
\* useLoader has its geometry
modelDisplayed == effect # "unmounted" /\ geometryUrl = modelUrl

\* variant: the effect has no cleanup function
RunEffect_noCleanup ==
    /\ pc = "idle"
    /\ modelDisplayed
    /\ effect \in {"none", "stale"}
    /\ colorAttr' = Some(defaultColors(position))
    /\ edgeLines' = edgeLines
    /\ effect' = "current"
    /\ UNCHANGED <<modelUrl, error, geometryUrl, nUploads, lastFiles, measuredUrl>>
    /\ UNCHANGED <<position, selectedFaceIndex, measurements, pc,
                   startFaceIndex, connectedFaces, processedFaces, facesToProcess,
                   expanded, pushes, lastEvent, nClicks, validPicks, onMeasureCalls,
                   repeatOf>>

\* the effect on [geometry] has not yet run for the geometry on screen
effectPending == modelDisplayed /\ effect \in {"none", "stale"}

\* useEffect on [geometry]: the cleanup of the effect that ran for the replaced
\* geometry clears the line group; then the colour attribute is created and the
\* line group attached
RunEffect ==
    /\ pc = "idle"
    /\ modelDisplayed
    /\ effect \in {"none", "stale"}
    /\ colorAttr' = Some(defaultColors(position))
    /\ edgeLines' = IF effect = "stale" THEN <<>> ELSE edgeLines
    /\ effect' = "current"
    /\ UNCHANGED <<modelUrl, error, geometryUrl, nUploads, lastFiles, measuredUrl>>
    /\ UNCHANGED <<position, selectedFaceIndex, measurements, pc,
                   startFaceIndex, connectedFaces, processedFaces, facesToProcess,
                   expanded, pushes, lastEvent, nClicks, validPicks, onMeasureCalls,
                   repeatOf>>

\* variant: the colour attribute is not tested
clickIgnored_faceOnly(colors, event) == event.face = Null

\* the two early returns of handleClick
clickIgnored(colors, event) == colors = Null \/ event.face = Null

HandleClickIgnored(event) ==
    /\ pc = "idle"
    /\ modelDisplayed
    /\ nClicks < MaxPicks
    /\ clickIgnored(colorAttr, event)
    /\ lastEvent' = Some(event)
    /\ nClicks' = nClicks + 1
    /\ UNCHANGED <<modelUrl, error, geometryUrl, nUploads, lastFiles, effect, measuredUrl>>
    /\ UNCHANGED <<position, colorAttr, selectedFaceIndex, edgeLines, measurements, pc,
                   startFaceIndex, connectedFaces, processedFaces, facesToProcess,
                   expanded, pushes, validPicks, onMeasureCalls, repeatOf>>

\* variant: the processed set of the previous call is kept
HandleClickStart_keepProcessed(event) ==
    /\ pc = "idle"
    /\ modelDisplayed
    /\ nClicks < MaxPicks
    /\ ~clickIgnored(colorAttr, event)
    /\ LET faceIndex == event.face[1].a \div 3
           st == loopInit(faceIndex)
       IN  /\ colorAttr' = IF selectedFaceIndex # Null
                           THEN Some(defaultColors(position))
                           ELSE colorAttr
           /\ startFaceIndex' = Some(faceIndex)
           /\ connectedFaces' = st.connectedFaces
           /\ processedFaces' = processedFaces
           /\ facesToProcess' = st.facesToProcess
           /\ expanded' = zeroCounts(position)
           /\ pushes' = [zeroCounts(position) EXCEPT ![faceIndex] = 1]
    /\ pc' = "loop"
    /\ lastEvent' = Some(event)
    /\ nClicks' = nClicks + 1
    /\ validPicks' = validPicks + 1
    /\ repeatOf' = IF selectedFaceIndex = Some(event.face[1].a \div 3)
                   THEN Some([result |-> measurements[1], lines |-> edgeLines])
                   ELSE Null
    /\ UNCHANGED <<modelUrl, error, geometryUrl, nUploads, lastFiles, effect, measuredUrl>>
    /\ UNCHANGED <<position, selectedFaceIndex, edgeLines, measurements, onMeasureCalls>>

\* variant: if (selectedFaceIndex) in place of if (selectedFaceIndex !== null)
HandleClickStart_truthyTest(event) ==
    /\ pc = "idle"
    /\ modelDisplayed
    /\ nClicks < MaxPicks
    /\ ~clickIgnored(colorAttr, event)
    /\ LET faceIndex == event.face[1].a \div 3
           st == loopInit(faceIndex)
       IN  /\ colorAttr' = IF selectedFaceIndex # Null /\ selectedFaceIndex # Some(0)
                           THEN Some(defaultColors(position))
                           ELSE colorAttr
           /\ startFaceIndex' = Some(faceIndex)
           /\ connectedFaces' = st.connectedFaces
           /\ processedFaces' = st.processedFaces
           /\ facesToProcess' = st.facesToProcess
           /\ expanded' = zeroCounts(position)
           /\ pushes' = [zeroCounts(position) EXCEPT ![faceIndex] = 1]
    /\ pc' = "loop"
    /\ lastEvent' = Some(event)
    /\ nClicks' = nClicks + 1
    /\ validPicks' = validPicks + 1
    /\ repeatOf' = IF selectedFaceIndex = Some(event.face[1].a \div 3)
                   THEN Some([result |-> measurements[1], lines |-> edgeLines])
                   ELSE Null
    /\ UNCHANGED <<modelUrl, error, geometryUrl, nUploads, lastFiles, effect, measuredUrl>>
    /\ UNCHANGED <<position, selectedFaceIndex, edgeLines, measurements, onMeasureCalls>>

\* handleClick up to the first test of the worklist loop
HandleClickStart(event) ==
    /\ pc = "idle"
    /\ modelDisplayed
    /\ nClicks < MaxPicks
    /\ ~clickIgnored(colorAttr, event)
    /\ LET faceIndex == event.face[1].a \div 3
           st == loopInit(faceIndex)
       IN  /\ colorAttr' = IF selectedFaceIndex # Null
                           THEN Some(defaultColors(position))
                           ELSE colorAttr
           /\ startFaceIndex' = Some(faceIndex)
           /\ connectedFaces' = st.connectedFaces
           /\ processedFaces' = st.processedFaces
           /\ facesToProcess' = st.facesToProcess
           /\ expanded' = zeroCounts(position)
           /\ pushes' = [zeroCounts(position) EXCEPT ![faceIndex] = 1]
    /\ pc' = "loop"
    /\ lastEvent' = Some(event)
    /\ nClicks' = nClicks + 1
    /\ validPicks' = validPicks + 1
    /\ repeatOf' = IF selectedFaceIndex = Some(event.face[1].a \div 3)
                   THEN Some([result |-> measurements[1], lines |-> edgeLines])
                   ELSE Null
    /\ UNCHANGED <<modelUrl, error, geometryUrl, nUploads, lastFiles, effect, measuredUrl>>
    /\ UNCHANGED <<position, selectedFaceIndex, edgeLines, measurements, onMeasureCalls>>

loopState ==
    [connectedFaces |-> connectedFaces,
     processedFaces |-> processedFaces,
     facesToProcess |-> facesToProcess]

\* one iteration that pops an already processed face: continue
LoopSkip ==
    /\ pc = "loop"
    /\ facesToProcess # <<>>
    /\ popIsProcessed(processedFaces, facesToProcess[Len(facesToProcess)])
    /\ \E st \in {loopStep(position, startFaceIndex[1], loopState)} :
           /\ connectedFaces' = st.connectedFaces
           /\ processedFaces' = st.processedFaces
           /\ facesToProcess' = st.facesToProcess
    /\ UNCHANGED <<modelUrl, error, geometryUrl, nUploads, lastFiles, effect, measuredUrl>>
    /\ UNCHANGED <<position, colorAttr, selectedFaceIndex, edgeLines, measurements, pc,
                   startFaceIndex, expanded, pushes,
                   lastEvent, nClicks, validPicks, onMeasureCalls, repeatOf>>

\* one iteration that pops a face and examines its neighbours
LoopExpand ==
    /\ pc = "loop"
    /\ facesToProcess # <<>>
    /\ ~popIsProcessed(processedFaces, facesToProcess[Len(facesToProcess)])
    /\ \E st \in {loopStep(position, startFaceIndex[1], loopState)} :
       LET currentFace == facesToProcess[Len(facesToProcess)]
           pushed == SubSeq(st.facesToProcess, Len(facesToProcess), Len(st.facesToProcess))
       IN  /\ connectedFaces' = st.connectedFaces
           /\ processedFaces' = st.processedFaces
           /\ facesToProcess' = st.facesToProcess
           /\ expanded' = [expanded EXCEPT ![currentFace] = @ + 1]
           /\ pushes' = [f \in Faces(position) |-> pushes[f] + CountIn(pushed, f)]
    /\ UNCHANGED <<modelUrl, error, geometryUrl, nUploads, lastFiles, effect, measuredUrl>>
    /\ UNCHANGED <<position, colorAttr, selectedFaceIndex, edgeLines, measurements, pc,
                   startFaceIndex, lastEvent, nClicks, validPicks, onMeasureCalls,
                   repeatOf>>

\* variant: the edges of the previous result are kept in front of the new ones
onMeasure_merge(previous, data) ==
    IF previous = Null THEN Some(data)
    ELSE Some([data EXCEPT !.edgeLengths = previous[1].edgeLengths \o @])

\* onMeasure={setMeasurements}: the new value replaces the state
onMeasure(previous, data) == Some(data)

\* variant: the highlight loop writes into the position array of the region's faces
HandleClickFinish_writesPositions ==
    /\ pc = "loop"
    /\ facesToProcess = <<>>
    /\ LET vertices == getUniqueVertices(position, connectedFaces)
           edges == findEdges(vertices)
       IN  /\ position' = [i \in 1..Len(position) |->
                              IF (i - 1) \in Range(connectedFaces)
                              THEN <<<<0, 0, 0>>, <<0, 0, 0>>, <<0, 0, 0>>>>
                              ELSE position[i]]
           /\ measurements' = onMeasure(measurements, calculateMeasurements(vertices, edges))
           /\ edgeLines' = highlightEdges(edges)
    /\ selectedFaceIndex' = startFaceIndex
    /\ onMeasureCalls' = onMeasureCalls + 1
    /\ measuredUrl' = geometryUrl
    /\ pc' = "idle"
    /\ UNCHANGED <<modelUrl, error, geometryUrl, nUploads, lastFiles, effect>>
    /\ UNCHANGED <<colorAttr, startFaceIndex, connectedFaces, processedFaces,
                   facesToProcess, expanded, pushes, lastEvent, nClicks, validPicks,
                   repeatOf>>

\* handleClick from the return of findConnectedFaces to its end
HandleClickFinish ==
    /\ pc = "loop"
    /\ facesToProcess = <<>>
    /\ LET vertices == getUniqueVertices(position, connectedFaces)
           edges == findEdges(vertices)
       IN  /\ colorAttr' = Some(highlightFaces(colorAttr[1], connectedFaces))
           /\ measurements' = onMeasure(measurements, calculateMeasurements(vertices, edges))
           /\ edgeLines' = highlightEdges(edges)
    /\ selectedFaceIndex' = startFaceIndex
    /\ onMeasureCalls' = onMeasureCalls + 1
    /\ measuredUrl' = geometryUrl
    /\ pc' = "idle"
    /\ UNCHANGED <<modelUrl, error, geometryUrl, nUploads, lastFiles, effect>>
    /\ UNCHANGED <<position, startFaceIndex, connectedFaces, processedFaces,
                   facesToProcess, expanded, pushes, lastEvent, nClicks, validPicks,
                   repeatOf>>

Next ==
    \/ RunEffect
    \/ \E event \in Events(position) : HandleClickIgnored(event)
    \/ \E event \in Events(position) : HandleClickStart(event)
    \/ LoopSkip
    \/ LoopExpand
    \/ HandleClickFinish

Spec == Init /\ [][Next]_vars

PolySpec == PolyInit /\ [][Next]_vars

\* a call of findConnectedFaces that has started runs on: handleClick is synchronous
FairSpec == Spec /\ WF_vars(LoopSkip) /\ WF_vars(LoopExpand)

-----------------------------------------------------------------------------
(* The ModelViewer component: file upload and the conditional Model element *)

\* a file name is its sequence of characters
UpperCase == <<"A", "B", "C", "D", "E", "F", "G", "H", "I", "J", "K", "L", "M",
               "N", "O", "P", "Q", "R", "S", "T", "U", "V", "W", "X", "Y", "Z">>
LowerCase == <<"a", "b", "c", "d", "e", "f", "g", "h", "i", "j", "k", "l", "m",
               "n", "o", "p", "q", "r", "s", "t", "u", "v", "w", "x", "y", "z">>

toLowerCase(str) ==
    [i \in 1..Len(str) |->
        IF \E u \in 1..Len(UpperCase) : UpperCase[u] = str[i]
        THEN LowerCase[CHOOSE u \in 1..Len(UpperCase) : UpperCase[u] = str[i]]
        ELSE str[i]]

\* name.split('.').pop(): what follows the last dot, the whole name when it has none
splitPop(name) ==
    LET dots == {i \in 1..Len(name) : name[i] = "."}
    IN  IF dots = {} THEN name
        ELSE SubSeq(name, (CHOOSE i \in dots : \A j \in dots : j <= i) + 1, Len(name))

validExtensions == {<<"s", "t", "l">>, <<"o", "b", "j">>, <<"g", "l", "t", "f">>,
                    <<"g", "l", "b">>}

\* 50 * 1024 * 1024
maxSize == 52428800

FileNames == {<<"a", ".", "s", "t", "l">>,
              <<"A", ".", "S", "T", "L">>,
              <<"a", ".", "o", "b", "j">>,
              <<"a", ".", "g", "l", "t", "f">>,
              <<"a", ".", "G", "l", "b">>,
              <<"a", ".", "s", "t", "l", ".", "t", "x", "t">>,
              <<"s", "t", "l">>,
              <<"a", ".">>}

FileSizes == {1024, maxSize, maxSize + 1}

\* event.target.files: no file, or the chosen file
FileLists == {<<>>} \cup {<<[name |-> n, size |-> z]>> : n \in FileNames, z \in FileSizes}

FormatError == "Unsupported file format"
SizeError == "File size too large"

\* variant: the error is cleared only when a file was chosen
handleFileUpload_clearInside(files, previousError, url, objectUrl) ==
    IF files = <<>> THEN [error |-> previousError, modelUrl |-> url]
    ELSE LET file == files[1]
             extension == toLowerCase(splitPop(file.name))
         IN  IF extension = <<>> \/ extension \notin validExtensions
             THEN [error |-> Some(FormatError), modelUrl |-> url]
             ELSE IF file.size > maxSize
             THEN [error |-> Some(SizeError), modelUrl |-> url]
             ELSE [error |-> Null, modelUrl |-> objectUrl]

\* the error and the modelUrl after handleFileUpload; objectUrl is the result of
\* URL.createObjectURL(file)
handleFileUpload(files, previousError, url, objectUrl) ==
    IF files = <<>> THEN [error |-> Null, modelUrl |-> url]
    ELSE LET file == files[1]
             extension == toLowerCase(splitPop(file.name))
         IN  IF extension = <<>> \/ extension \notin validExtensions
             THEN [error |-> Some(FormatError), modelUrl |-> url]
             ELSE IF file.size > maxSize
             THEN [error |-> Some(SizeError), modelUrl |-> url]
             ELSE [error |-> Null, modelUrl |-> objectUrl]

\* variant: the error is not part of the condition
renderModel_urlOnly(url, err) == url # 0

\* {modelUrl && !error && (<Model ... />)}
renderModel(url, err) == url # 0 /\ err = Null

\* the meshes of the uploaded files
LoadMeshes == {<<TriA, TriB>>, <<TriT, TriX>>, <<TriS, TriA>>}

\* nothing uploaded yet
ViewerInit ==
    /\ position = <<>>
    /\ colorAttr = Null
    /\ selectedFaceIndex = Null
    /\ edgeLines = <<>>
    /\ measurements = Null
    /\ pc = "idle"
    /\ startFaceIndex = Null
    /\ connectedFaces = <<>>
    /\ processedFaces = {}
    /\ facesToProcess = <<>>
    /\ expanded = zeroCounts(position)
    /\ pushes = zeroCounts(position)
    /\ lastEvent = Null
    /\ nClicks = 0
    /\ validPicks = 0
    /\ onMeasureCalls = 0
    /\ repeatOf = Null
    /\ modelUrl = 0
    /\ error = Null
    /\ effect = "unmounted"
    /\ geometryUrl = 0
    /\ nUploads = 0
    /\ lastFiles = Null
    /\ measuredUrl = 0

\* an upload event: handleFileUpload and the render that follows it.  A Model element
\* that is removed loses its state and its line group; a new one starts with both empty.
\* React runs a pending effect before it renders again
UploadFile(files) ==
    /\ pc = "idle"
    /\ ~effectPending
    /\ nUploads < MaxUploads
    /\ \E r \in {handleFileUpload(files, error, modelUrl, nUploads + 1)} :
          /\ error' = r.error
          /\ modelUrl' = r.modelUrl
          /\ IF ~renderModel(r.modelUrl, r.error)
             THEN /\ effect' = "unmounted"
                  /\ selectedFaceIndex' = Null
                  /\ edgeLines' = <<>>
                  /\ startFaceIndex' = Null
                  /\ connectedFaces' = <<>>
                  /\ processedFaces' = {}
             ELSE IF effect = "unmounted"
             THEN /\ effect' = "none"
                  /\ selectedFaceIndex' = Null
                  /\ edgeLines' = <<>>
                  /\ startFaceIndex' = Null
                  /\ connectedFaces' = <<>>
                  /\ processedFaces' = {}
             ELSE UNCHANGED <<effect, selectedFaceIndex, edgeLines, startFaceIndex,
                              connectedFaces, processedFaces>>
    /\ nUploads' = nUploads + 1
    /\ lastFiles' = Some(files)
    /\ UNCHANGED <<position, colorAttr, measurements, pc, geometryUrl, measuredUrl,
                   facesToProcess, expanded, pushes, lastEvent, nClicks, validPicks,
                   onMeasureCalls, repeatOf>>

\* useLoader(STLLoader, url) delivers the geometry of a new URL: the Model renders
\* with it; the new geometry has no colour attribute
LoaderResolve ==
    /\ pc = "idle"
    /\ effect # "unmounted"
    /\ geometryUrl # modelUrl
    /\ \E mesh \in LoadMeshes :
          /\ position' = mesh
          /\ expanded' = zeroCounts(mesh)
          /\ pushes' = zeroCounts(mesh)
    /\ colorAttr' = Null
    /\ geometryUrl' = modelUrl
    /\ effect' = IF effect = "current" THEN "stale" ELSE effect
    /\ startFaceIndex' = Null
    /\ connectedFaces' = <<>>
    /\ processedFaces' = {}
    /\ UNCHANGED <<selectedFaceIndex, edgeLines, measurements, pc, facesToProcess,
                   lastEvent, nClicks, validPicks, onMeasureCalls, repeatOf,
                   modelUrl, error, nUploads, lastFiles, measuredUrl>>

ViewerNext ==
    \/ RunEffect
    \/ \E event \in Events(position) : HandleClickIgnored(event)
    \/ \E event \in Events(position) : HandleClickStart(event)
    \/ LoopSkip
    \/ LoopExpand
    \/ HandleClickFinish
    \/ \E files \in FileLists : UploadFile(files)
    \/ LoaderResolve

\* the viewer from its first render, with uploads
ViewerSpec == ViewerInit /\ [][ViewerNext]_vars

TypeOK ==
    /\ position \in Meshes
    /\ pc \in {"idle", "loop"}
    /\ nClicks \in 0..MaxPicks
    /\ Len(selectedFaceIndex) <= 1
    /\ Len(measurements) <= 1

-----------------------------------------------------------------------------
(* Properties *)

\* a valid pick has run to its end; the loop variables are those of that pick
Picked == pc = "idle" /\ startFaceIndex # Null

Seed == startFaceIndex[1]
Region == Range(connectedFaces)
Result == measurements[1]

sharesVertex(pos, t, u) ==
    \E i \in 0..2, j \in 0..2 : faceVertex(pos, t, i) = faceVertex(pos, u, j)

qualifies(pos, s, u) == dotAboveThreshold(faceNormal(pos, u), faceNormal(pos, s))

\* the least set that contains s and is closed under qualifying vertex-sharing neighbours
RECURSIVE Closure(_, _, _)
Closure(pos, s, R) ==
    LET R2 == R \cup {u \in Faces(pos) :
                        qualifies(pos, s, u) /\ \E t \in R : sharesVertex(pos, t, u)}
    IN  IF R2 = R THEN R ELSE Closure(pos, s, R2)

\* dot(a/|a|, b/|b|) >= NORMAL_THRESHOLD
dotAtLeastThreshold(a, b) ==
    /\ dot(a, b) > 0
    /\ dot(a, b) * dot(a, b) * ThresholdDen * ThresholdDen
         >= ThresholdNum * ThresholdNum * lengthSq(a) * lengthSq(b)

\* the distinct vertex positions of the region
DistinctVertices == {faceVertex(position, f, k) : f \in Region, k \in 0..2}

\* the Measurement Result of a pick of face f
MeasurementResult(pos, f) ==
    LET vertices == getUniqueVertices(pos, findConnectedFaces(pos, f))
    IN  calculateMeasurements(vertices, findEdges(vertices))

\* C1: the region returned by findConnectedFaces(s) contains s, lists no index
\* twice, and so is never empty
C1_RegionContainsSeedOnce ==
    Picked =>
        /\ Seed \in Region
        /\ Len(connectedFaces) >= 1
        /\ \A i, j \in 1..Len(connectedFaces) : i # j => connectedFaces[i] # connectedFaces[j]

\* C1 witness: a returned region of several faces, one of them pushed more than once
C1_Witness ==
    /\ Picked
    /\ Len(connectedFaces) >= 2
    /\ \E f \in Region : pushes[f] >= 2

\* C2 as stated: every member of the returned region, the seed included, has a
\* normal whose dot product with the seed's normal is at least 0.95
C2_Original ==
    Picked =>
        \A t \in Region :
            dotAtLeastThreshold(faceNormal(position, t), faceNormal(position, Seed))

\* C2 amended: every member of the returned region has a normal whose dot product
\* with the seed's normal exceeds 0.95, except the seed itself when it is
\* degenerate: then its normal is the zero vector and the dot product is 0
C2_Amended ==
    Picked =>
        \A t \in Region :
            \/ dotAboveThreshold(faceNormal(position, t), faceNormal(position, Seed))
            \/ /\ t = Seed
               /\ faceNormal(position, Seed) = <<0, 0, 0>>
               /\ dot(faceNormal(position, t), faceNormal(position, Seed)) = 0

\* C2 witness: a region that holds a face tilted against the seed
C2_Witness ==
    /\ Picked
    /\ \E t \in Region : faceNormal(position, t) # faceNormal(position, Seed)

\* C3: the returned region is exactly the least set containing the seed and closed
\* under vertex-sharing neighbours whose normal passes the test against the seed
C3_RegionIsClosure ==
    Picked => Region = Closure(position, Seed, {Seed})

\* C3 witness: the region holds a face that shares no vertex with the seed and
\* was reached through a tilted face in between
C3_Witness ==
    /\ Picked
    /\ \E u \in Region : ~sharesVertex(position, Seed, u)
    /\ \E t \in Region : faceNormal(position, t) # faceNormal(position, Seed)

\* C4: the worklist loop terminates, and no face is expanded more than once in
\* one call, however often it was pushed
C4_LoopTerminatesExpandOnce ==
    /\ [](\A f \in Faces(position) : expanded[f] <= 1)
    /\ (pc = "loop") ~> (facesToProcess = <<>>)

\* C4 witness: a call has returned in which a face was pushed several times and
\* expanded once
C4_Witness ==
    /\ Picked
    /\ \E f \in Faces(position) : pushes[f] >= 2 /\ expanded[f] = 1

\* C5: a click without a face, or before the colour attribute exists, returns at
\* once and leaves the selection, the colours, the lines and the published
\* measurement as they were, without calling onMeasure
C5_InvalidPickNoOp ==
    [][(nClicks' = nClicks + 1 /\ (lastEvent'[1].face = Null \/ colorAttr = Null))
          => /\ pc' = "idle"
             /\ UNCHANGED <<selectedFaceIndex, colorAttr, edgeLines, measurements,
                            onMeasureCalls>>]_vars

\* C5 witness: a miss was handled after a selection had been made
C5_Witness ==
    /\ pc = "idle"
    /\ lastEvent # Null
    /\ lastEvent[1].face = Null
    /\ selectedFaceIndex # Null
    /\ measurements # Null
    /\ edgeLines # <<>>

\* C6: between clicks the published measurement is the result of the most recent
\* valid pick (null before the first), and onMeasure ran once per valid pick
C6_MeasurementOfLastPick ==
    pc = "idle" =>
        /\ measurements = IF startFaceIndex = Null THEN Null
                          ELSE Some(MeasurementResult(position, Seed))
        /\ onMeasureCalls = validPicks

\* C6 witness: a second valid pick has published its result
C6_Witness ==
    /\ pc = "idle"
    /\ validPicks = 2
    /\ onMeasureCalls = 2
    /\ measurements # Null
    /\ Len(Result.edgeLengths) >= 1

\* C7 as stated: a face whose distinct vertices are the corners of the 10 x 20
\* rectangle is a rectangle of perimeter 60 and area 200
C7_Rectangle ==
    (Picked /\ DistinctVertices = {P0, P1, P2, P3}) =>
        /\ Result.type = "rectangle"
        /\ Result.perimeter = 60 * SCALE
        /\ Result.area = 200 * SCALE

\* C8: a region of one distinct vertex is measured without error as area 0,
\* perimeter 0, type complex, with no edges
C8_SingleVertex ==
    (Picked /\ Cardinality(DistinctVertices) = 1) =>
        /\ measurements # Null
        /\ Result.area = 0
        /\ Result.perimeter = 0
        /\ Result.type = "complex"
        /\ Result.edgeLengths = <<>>
        /\ edgeLines = <<>>

\* C8 witness: a pick of a face whose three vertices coincide has been measured
C8_Witness ==
    /\ Picked
    /\ Cardinality(DistinctVertices) = 1
    /\ measurements # Null

\* C9 as stated: with fewer than 2 distinct vertices every numeric metric is zero
\* and the type is complex
C9_AllMetricsZero ==
    (Picked /\ Cardinality(DistinctVertices) < 2) =>
        /\ Result.area = 0
        /\ Result.perimeter = 0
        /\ Result.maxLength = 0
        /\ Result.minLength = 0
        /\ Result.type = "complex"

\* C10 as stated: with 1 or 2 distinct vertices the result is area 0, perimeter 0,
\* type complex
C10_Original ==
    (Picked /\ Cardinality(DistinctVertices) \in {1, 2}) =>
        /\ measurements # Null
        /\ Result.area = 0
        /\ Result.perimeter = 0
        /\ Result.type = "complex"

\* C10 amended: with 1 or 2 distinct vertices the result is area 0 and type
\* complex; the perimeter is 0 for one vertex and, for two, the positive distance
\* between them
C10_Amended ==
    (Picked /\ Cardinality(DistinctVertices) \in {1, 2}) =>
        /\ measurements # Null
        /\ Result.area = 0
        /\ Result.type = "complex"
        /\ Cardinality(DistinctVertices) = 1 => Result.perimeter = 0
        /\ \A a, b \in DistinctVertices :
              a # b =>
                 /\ Result.perimeter > 0
                 /\ Result.perimeter * Result.perimeter
                      <= lengthSq(subVectors(a, b)) * SCALE * SCALE
                 /\ lengthSq(subVectors(a, b)) * SCALE * SCALE
                      < (Result.perimeter + 1) * (Result.perimeter + 1)

\* C10 witness: a pick of a face with two distinct vertices has been measured
C10_Witness ==
    /\ Picked
    /\ Cardinality(DistinctVertices) = 2
    /\ measurements # Null
    /\ Len(Result.edgeLengths) = 1

\* C11: in every Measurement Result area >= 0 and perimeter >= 0, and when the
\* edge list is not empty 0 <= minLength <= maxLength
C11_NonNegativeMetrics ==
    (pc = "idle" /\ measurements # Null) =>
        /\ Result.area >= 0
        /\ Result.perimeter >= 0
        /\ Result.edgeLengths # <<>> =>
              /\ 0 <= Result.minLength
              /\ Result.minLength <= Result.maxLength

\* C11 witness: a result with positive area whose edges have different lengths
C11_Witness ==
    /\ pc = "idle"
    /\ measurements # Null
    /\ Result.area > 0
    /\ Len(Result.edgeLengths) >= 3
    /\ Result.minLength < Result.maxLength

\* C12: the type of every Measurement Result is circle, rectangle or complex;
\* circle only with at least 8 distinct vertices, rectangle only with exactly 4;
\* no vertex list passes both tests, and one that passes neither is complex
C12_TypeByVertexCount ==
    (pc = "idle" /\ measurements # Null) =>
        LET vertices == getUniqueVertices(position, connectedFaces)
            edges == findEdges(vertices)
        IN  /\ Result.type \in {"circle", "rectangle", "complex"}
            /\ Result.type = "circle" => Cardinality(DistinctVertices) >= 8
            /\ Result.type = "rectangle" => Cardinality(DistinctVertices) = 4
            /\ ~(isRectangular(vertices, edges) /\ isCircular(vertices))
            /\ (~isRectangular(vertices, edges) /\ ~isCircular(vertices))
                  => Result.type = "complex"

\* C12 witness: a face of more than 8 distinct vertices has been classified as circle
C12_Witness ==
    /\ Picked
    /\ measurements # Null
    /\ Result.type = "circle"
    /\ Cardinality(DistinctVertices) > 8

\* C13: a pick of the triangle that was picked just before, on the same mesh,
\* publishes the same Measurement Result and draws the same lines; after any
\* earlier selection the result is that of the mesh positions and the picked index
C13_SamePickSameResult ==
    /\ (Picked /\ repeatOf # Null) =>
            /\ measurements = Some(repeatOf[1].result)
            /\ edgeLines = repeatOf[1].lines
    /\ (Picked /\ validPicks >= 2) =>
            measurements = Some(MeasurementResult(position, Seed))

\* C13 witness: the same triangle of a region of several faces was picked twice
C13_Witness ==
    /\ Picked
    /\ repeatOf # Null
    /\ validPicks = 2
    /\ Len(connectedFaces) >= 2
    /\ Len(Result.edgeLengths) >= 3

\* the scale factors that keep the mesh within MaxCoord
ScaleFactors(pos) == {k \in 1..MaxScale : k * maxAbsCoord(pos) <= MaxCoord}

\* x = k * y up to the rounding of n fixed-point values
scaledWithin(x, y, k, n) == k * y <= x /\ x <= k * y + k * n

\* area times k * k, every length times k
metricsScaleBy(r1, rk, k) ==
    /\ Len(rk.edgeLengths) = Len(r1.edgeLengths)
    /\ scaledWithin(rk.area, k * r1.area, k, k * Len(r1.edgeLengths))
    /\ scaledWithin(rk.perimeter, r1.perimeter, k, Len(r1.edgeLengths))
    /\ scaledWithin(rk.maxLength, r1.maxLength, k, 1)
    /\ scaledWithin(rk.minLength, r1.minLength, k, 1)
    /\ \A i \in 1..Len(r1.edgeLengths) :
          scaledWithin(rk.edgeLengths[i].length, r1.edgeLengths[i].length, k, 1)

\* C14 as stated: scaling all vertex positions by k multiplies the area by k * k
\* and the perimeter, maxLength, minLength and every edge length by k, and leaves
\* the classification unchanged
C14_ScaleInvariance ==
    Picked =>
        \A k \in ScaleFactors(position) :
            LET rk == MeasurementResult(scaleMesh(position, k), Seed)
            IN  /\ metricsScaleBy(Result, rk, k)
                /\ rk.type = Result.type

\* the vertex list of the picked region
regionVertices == getUniqueVertices(position, connectedFaces)

\* n times the vector from the centroid of the list to its vertex i
fromCentroid(vertices, i) ==
    LET n == Len(vertices)
        total == sumVectors(vertices)
    IN  <<n * vertices[i][1] - total[1], n * vertices[i][2] - total[2],
          n * vertices[i][3] - total[3]>>

\* all vertices are at the same distance from the centroid
onCircle(vertices) ==
    \A i, j \in 1..Len(vertices) :
        lengthSq(fromCentroid(vertices, i)) = lengthSq(fromCentroid(vertices, j))

\* that distance, in 1/SCALE units
circleRadius(vertices) ==
    Isqrt(lengthSq(fromCentroid(vertices, 1)) * SCALE * SCALE) \div Len(vertices)

\* x equals y within one percent and one unit
withinTolerance(x, y) == Abs(x - y) * 100 <= y + 100

\* C15 as stated: a face of N >= 8 vertices on a circle of radius R about their
\* centroid is a circle, its radius (half the largest vertex distance) is R and
\* its circumference (the reported perimeter) is 2 * pi * R, within tolerance
C15_CircleRoundTrip ==
    (Picked /\ Len(regionVertices) >= 8 /\ onCircle(regionVertices)) =>
        LET R == circleRadius(regionVertices)
        IN  /\ Result.type = "circle"
            /\ withinTolerance(Result.maxLength, 2 * R)
            /\ withinTolerance(Result.perimeter * PiDen, 2 * PiNum * R)

\* C16: a region of n distinct vertices has exactly n(n-1)/2 edges, each joining
\* two different vertices of the region, and no pair of vertices twice: one edge
\* for each unordered pair
C16_AllPairsOnce ==
    Picked =>
        \A V \in {DistinctVertices} :
            LET n == Cardinality(V)
                E == Result.edgeLengths
                ends(i) == {E[i].vertices[1], E[i].vertices[2]}
            IN  /\ 2 * Len(E) = n * (n - 1)
                /\ Len(edgeLines) = Len(E)
                /\ \A i \in 1..Len(E) :
                      /\ E[i].vertices[1] # E[i].vertices[2]
                      /\ ends(i) \subseteq V
                /\ \A i, j \in 1..Len(E) : i < j => ends(i) # ends(j)

\* C16 witness: a region of at least 5 distinct vertices has been measured
C16_Witness ==
    /\ Picked
    /\ Cardinality(DistinctVertices) >= 5
    /\ Len(Result.edgeLengths) >= 10

\* C17: the edge at position i (0-based) of edgeLengths is the i-th edge findEdges
\* produced, has id i and colour EDGE_COLORS[i mod 8], and the line drawn for it
\* joins the same two vertices in the same colour
C17_EdgeIdAndColour ==
    Picked =>
        LET E == Result.edgeLengths
            edges == findEdges(regionVertices)
        IN  /\ Len(E) = Len(edges)
            /\ Len(edgeLines) = Len(edges)
            /\ \A i \in 0..(Len(E) - 1) :
                  /\ E[i + 1].id = i
                  /\ E[i + 1].vertices = edges[i + 1]
                  /\ E[i + 1].color = EDGE_COLORS[(i % 8) + 1]
                  /\ edgeLines[i + 1].color = E[i + 1].color
                  /\ <<edgeLines[i + 1].start, edgeLines[i + 1].end>> = E[i + 1].vertices

\* C17 witness: a result with more edges than the palette has colours
C17_Witness ==
    /\ Picked
    /\ Len(Result.edgeLengths) > 8
    /\ Result.edgeLengths[9].color = EDGE_COLORS[1]
    /\ edgeLines[9].color = EDGE_COLORS[1]

\* C18: in every Measurement Result, a circle included, the perimeter is the sum
\* of the lengths of exactly the edges of the reported edge list
C18_PerimeterIsEdgeSum ==
    (pc = "idle" /\ measurements # Null) =>
        Result.perimeter =
            SumSeq([i \in 1..Len(Result.edgeLengths) |-> Result.edgeLengths[i].length])

\* C18 witness: a circle with its 28 edges has been measured
C18_Witness ==
    /\ pc = "idle"
    /\ measurements # Null
    /\ Result.type = "circle"
    /\ Len(Result.edgeLengths) = 28
    /\ Result.perimeter > 0

\* C19: for a region of at least 2 distinct vertices maxLength is the largest and
\* minLength the smallest distance over all pairs of distinct vertices
C19_MaxMinOverAllPairs ==
    (Picked /\ Cardinality(DistinctVertices) >= 2) =>
        LET pairs == {p \in DistinctVertices \X DistinctVertices : p[1] # p[2]}
        IN  /\ \A p \in pairs : /\ distanceTo(p[1], p[2]) <= Result.maxLength
                                /\ distanceTo(p[1], p[2]) >= Result.minLength
            /\ \E p \in pairs : distanceTo(p[1], p[2]) = Result.maxLength
            /\ \E p \in pairs : distanceTo(p[1], p[2]) = Result.minLength

\* C19 witness: in a measured region of at least 4 vertices the first pair is
\* neither the longest nor the shortest
C19_Witness ==
    /\ Picked
    /\ Cardinality(DistinctVertices) >= 4
    /\ Result.edgeLengths[1].length < Result.maxLength
    /\ Result.edgeLengths[1].length > Result.minLength

\* C20 as stated: the area reported for a circle is pi * radius squared, with
\* radius half of the largest vertex distance, and not the fan-triangulation sum
C20_CircleArea ==
    (pc = "idle" /\ measurements # Null /\ Result.type = "circle") =>
        /\ withinTolerance(Result.area,
                           (PiNum * Result.maxLength * Result.maxLength)
                               \div (4 * PiDen * SCALE))
        /\ Result.area # calculateArea(regionVertices)

\* C21: a pick never changes the loaded mesh: every step of handleClick leaves the
\* vertex positions and the triangle order as they were; what a pick changes is the
\* colour attribute, the line group, selectedFaceIndex and the published measurement
C21_PickKeepsMesh ==
    [][/\ position' = position
       /\ (pc = "loop" /\ pc' = "idle") =>
              /\ colorAttr' # colorAttr
              /\ selectedFaceIndex' = startFaceIndex
              /\ measurements' # Null]_vars

\* C21 witness: a second pick has ended with colours, lines, selection and
\* measurement all set, on a mesh of several triangles
C21_Witness ==
    /\ Picked
    /\ validPicks = 2
    /\ numFaces(position) >= 2
    /\ HIGHLIGHT_COLOR \in Range(colorAttr[1])
    /\ edgeLines # <<>>
    /\ selectedFaceIndex # Null
    /\ measurements # Null

\* a, b and c lie on one line (or coincide): equality in the Cauchy-Schwarz inequality
collinear(a, b, c) ==
    LET u == subVectors(b, a)
        w == subVectors(c, a)
    IN  dot(u, u) * dot(w, w) = dot(u, w) * dot(u, w)

\* t is the area of triangle (a, b, c) in 1/SCALE units, rounded down from the half unit:
\* (2 * area)^2 = |b - a|^2 |c - a|^2 - ((b - a) . (c - a))^2
isTriangleArea(t, a, b, c) ==
    LET u == subVectors(b, a)
        w == subVectors(c, a)
        fourAreaSq == (dot(u, u) * dot(w, w) - dot(u, w) * dot(u, w)) * SCALE * SCALE
    IN  /\ t >= 0
        /\ (2 * t) * (2 * t) <= fourAreaSq
        /\ fourAreaSq < (2 * t + 2) * (2 * t + 2)

\* area is split into one amount for each fan triangle (v[0], v[i-1], v[i]), i = 2 .. n-1
RECURSIVE isFanArea(_, _, _)
isFanArea(area, V, i) ==
    IF i < 2 THEN area = 0
    ELSE \E t \in {getArea(V[1], V[i], V[i + 1])} :
            /\ isTriangleArea(t, V[1], V[i], V[i + 1])
            /\ collinear(V[1], V[i], V[i + 1]) => t = 0
            /\ isFanArea(area - t, V, i - 1)

mapKeys(pos) == {faceVertex(pos, f, k) : f \in Faces(pos), k \in 0..2}

\* the triangles with a vertex at key
touching(pos, key) == {f \in Faces(pos) : \E k \in 0..2 : faceVertex(pos, f, k) = key}

\* C23 as stated: the list under a key holds exactly the triangles with a vertex at
\* that position, in ascending order, each listed once
C23_Original ==
    startFaceIndex # Null =>
        \A key \in mapKeys(position) :
            \A L \in {vertexToFaces(position, key)} :
                /\ Range(L) = touching(position, key)
                /\ \A i \in 1..(Len(L) - 1) : L[i] < L[i + 1]

\* C23 amended: the list under a key holds exactly the triangles with a vertex at
\* that position, in non-decreasing order, each listed once for each of its vertices
\* at that position
C23_Amended ==
    startFaceIndex # Null =>
        \A key \in mapKeys(position) :
            \A L \in {vertexToFaces(position, key)} :
                /\ Range(L) = touching(position, key)
                /\ \A i \in 1..(Len(L) - 1) : L[i] <= L[i + 1]
                /\ \A f \in Faces(position) :
                      CountIn(L, f) = Cardinality({k \in 0..2 : faceVertex(position, f, k) = key})

\* C23 witness: during a pick, a key shared by two triangles, one of them with two
\* of its vertices there
C23_Witness ==
    /\ startFaceIndex # Null
    /\ \E key \in mapKeys(position) :
          \E L \in {vertexToFaces(position, key)} :
              /\ Cardinality(Range(L)) >= 2
              /\ \E f \in Range(L) : CountIn(L, f) >= 2

\* the m-th vertex read by getUniqueVertices (m from 0): vertex m % 3 of the
\* (m \div 3)-th face of the list
vertexRead(pos, faceIndices, m) == faceVertex(pos, faceIndices[(m \div 3) + 1], m % 3)

\* the first read at which position v appears
firstRead(pos, faceIndices, v) ==
    CHOOSE m \in 0..(3 * Len(faceIndices) - 1) :
        /\ vertexRead(pos, faceIndices, m) = v
        /\ \A l \in 0..(m - 1) : vertexRead(pos, faceIndices, l) # v

\* C24: getUniqueVertices returns each distinct vertex position of the region's
\* triangles exactly once, in order of first appearance, and nothing else
C24_UniqueVertices ==
    Picked =>
        \A V \in {getUniqueVertices(position, connectedFaces)} :
            /\ Range(V) = DistinctVertices
            /\ \A i, j \in 1..Len(V) : i < j =>
                  /\ V[i] # V[j]
                  /\ firstRead(position, connectedFaces, V[i])
                        < firstRead(position, connectedFaces, V[j])

\* C24 witness: a region of several faces that share positions, one position read
\* three times or more, and a face that brings no new position or only some
C24_Witness ==
    /\ Picked
    /\ Len(connectedFaces) >= 3
    /\ \E V \in {getUniqueVertices(position, connectedFaces)} :
          /\ Len(V) >= 5
          /\ Len(V) < 3 * Len(connectedFaces)
          /\ \E v \in Range(V) :
                Cardinality({m \in 0..(3 * Len(connectedFaces) - 1) :
                                vertexRead(position, connectedFaces, m) = v}) >= 3

\* triangle f has zero area: its three vertices lie on one line or coincide
degenerate(pos, f) ==
    collinear(faceVertex(pos, f, 0), faceVertex(pos, f, 1), faceVertex(pos, f, 2))

\* C25: a degenerate triangle has the zero vector as its normal and is never in a
\* region as a neighbour; the region of a degenerate seed is exactly the seed
C25_DegenerateNeverAccepted ==
    Picked =>
        /\ \A f \in Faces(position) :
              degenerate(position, f) =>
                  /\ faceNormal(position, f) = <<0, 0, 0>>
                  /\ f # Seed => f \notin Region
        /\ degenerate(position, Seed) => connectedFaces = <<Seed>>

\* C25 witness: a region of two or more triangles, touched by a degenerate triangle
\* that was examined and left out
C25_Witness ==
    /\ Picked
    /\ Len(connectedFaces) >= 2
    /\ \E f \in Faces(position) \ Region :
          /\ degenerate(position, f)
          /\ \E t \in Region : sharesVertex(position, t, f)

\* C25 witness of the second half: a degenerate seed whose vertices are shared with
\* other triangles
C25_WitnessSeed ==
    /\ Picked
    /\ degenerate(position, Seed)
    /\ \E f \in Faces(position) \ {Seed} :
          ~degenerate(position, f) /\ sharesVertex(position, Seed, f)

\* C26: once the geometry of a new URL is loaded, no Measurement Result computed on
\* the geometry of an earlier URL is still published
C26_NoResultOfPriorMesh ==
    (geometryUrl = modelUrl /\ measurements # Null) => measuredUrl = geometryUrl

\* C27: after any sequence of valid picks on one mesh, the triangles whose three
\* vertex colours are the highlight colour are exactly those of the region of the
\* most recent pick, and every other triangle has the default colour
C27_OnlyLastRegionHighlighted ==
    Picked =>
        \A f \in Faces(position), k \in 1..3 :
            colorAttr[1][3 * f + k] = IF f \in Region THEN HIGHLIGHT_COLOR ELSE DEFAULT_COLOR

\* C27 witness: the second pick was of another triangle than the first, and its
\* region is that triangle alone: the triangle picked first is no longer highlighted
C27_Witness ==
    /\ Picked
    /\ validPicks = 2
    /\ repeatOf = Null
    /\ numFaces(position) >= 2
    /\ connectedFaces = <<Seed>>
    /\ \E f \in Faces(position) \ {Seed} : colorAttr[1][3 * f + 1] = DEFAULT_COLOR

\* the mesh on screen has its colour attribute and no handler is running
viewerSettled == pc = "idle" /\ modelDisplayed /\ effect = "current"

\* C28: after any sequence of valid picks and mesh loads the line group holds one
\* line for each edge of the most recent pick on the mesh on screen, in edge order,
\* and no line when that mesh has not been picked since it was loaded
C28_LinesOfLastPickOnly ==
    viewerSettled =>
        IF startFaceIndex = Null THEN edgeLines = <<>>
        ELSE \A E \in {findEdges(getUniqueVertices(position, connectedFaces))} :
                /\ Len(edgeLines) = Len(E)
                /\ \A i \in 1..Len(E) :
                      /\ edgeLines[i].start = E[i][1]
                      /\ edgeLines[i].end = E[i][2]

\* C28 witness: a pick, a load of another file, and a pick on the new mesh whose
\* lines are now the only ones
C28_Witness ==
    /\ viewerSettled
    /\ geometryUrl >= 2
    /\ validPicks = 2
    /\ startFaceIndex # Null
    /\ measuredUrl = geometryUrl
    /\ Len(edgeLines) >= 3

\* C28 witness of the empty case: lines were drawn, another file was loaded and
\* has not been picked
C28_WitnessNoPick ==
    /\ viewerSettled
    /\ geometryUrl >= 2
    /\ validPicks >= 1
    /\ startFaceIndex = Null
    /\ measuredUrl # geometryUrl

\* C29: for the vertices of a region and the edges findEdges makes of them,
\* isRectangular is false: four distinct vertices give six edges, not four; so no
\* pick publishes a result of type rectangle
C29_NeverRectangle ==
    (Picked /\ measurements # Null) =>
        \A V \in {getUniqueVertices(position, connectedFaces)} :
            \A E \in {findEdges(V)} :
                /\ Len(V) = RectVertexCount => Len(E) = 6
                /\ ~isRectangular(V, E)
                /\ Result.type # "rectangle"

\* C29 witness: a region of four distinct vertices at right angles, the two halves
\* of a rectangle, has been measured
C29_Witness ==
    /\ Picked
    /\ measurements # Null
    /\ Cardinality(DistinctVertices) = 4
    /\ Len(connectedFaces) = 2
    /\ \E V \in {getUniqueVertices(position, connectedFaces)} :
          /\ dot(subVectors(V[2], V[1]), subVectors(V[3], V[2])) = 0
          /\ dot(subVectors(V[3], V[2]), subVectors(V[4], V[3])) = 0
          /\ dot(subVectors(V[4], V[3]), subVectors(V[1], V[4])) = 0

\* the same letter, in either case
sameLetter(c, d) ==
    \/ c = d
    \/ \E i \in 1..Len(UpperCase) : {c, d} = {UpperCase[i], LowerCase[i]}

\* str spells word, letter case ignored
spells(str, word) ==
    /\ Len(str) = Len(word)
    /\ \A i \in 1..Len(word) : sameLetter(str[i], word[i])

AcceptedWords == {<<"s", "t", "l">>, <<"o", "b", "j">>, <<"g", "l", "t", "f">>,
                  <<"g", "l", "b">>}

\* the name ends with a dot followed by one of stl, obj, gltf, glb
hasAcceptedExtension(name) ==
    \E w \in AcceptedWords :
        /\ Len(name) > Len(w)
        /\ name[Len(name) - Len(w)] = "."
        /\ spells(SubSeq(name, Len(name) - Len(w) + 1, Len(name)), w)

\* the name is one of stl, obj, gltf, glb, without a dot
isAcceptedWord(name) == \E w \in AcceptedWords : spells(name, w)

\* 50 MB in bytes
FiftyMB == 50 * 1024 * 1024

\* what an upload event of a file leaves, when accepted says whether its name passes
uploadOutcome(accepted) ==
    /\ lastFiles'[1] = <<>> => (error' = Null /\ modelUrl' = modelUrl)
    /\ lastFiles'[1] # <<>> =>
          IF ~accepted \/ lastFiles'[1][1].size > FiftyMB
          THEN error' # Null /\ modelUrl' = modelUrl
          ELSE error' = Null /\ modelUrl' # modelUrl /\ modelUrl' # 0
    /\ effect' # "unmounted" => (modelUrl' # 0 /\ error' = Null)

\* C30 as stated: an upload event clears the error; a file whose extension is not
\* one of stl, obj, gltf, glb, or that is larger than 50 MB, sets an error and
\* leaves modelUrl; a valid file sets modelUrl and leaves the error null; the Model
\* is rendered only while modelUrl is non-empty and the error is null
C30_Original ==
    [][nUploads' # nUploads =>
          uploadOutcome(hasAcceptedExtension(lastFiles'[1][1].name))]_vars

\* C30 amended: as C30, where a file is also taken as valid when its whole name,
\* without any dot, is one of stl, obj, gltf, glb
C30_Amended ==
    [][nUploads' # nUploads =>
          uploadOutcome(\/ hasAcceptedExtension(lastFiles'[1][1].name)
                        \/ isAcceptedWord(lastFiles'[1][1].name))]_vars

\* C30 witness: with a model loaded and measured, a file that is too large was
\* uploaded: the error is set, modelUrl is kept and the Model is not rendered
C30_Witness ==
    /\ nUploads >= 2
    /\ modelUrl # 0
    /\ geometryUrl = modelUrl
    /\ measurements # Null
    /\ error = Some(SizeError)
    /\ lastFiles # Null
    /\ lastFiles[1] # <<>>
    /\ hasAcceptedExtension(lastFiles[1][1].name)
    /\ effect = "unmounted"

====
